---------------------------- MODULE Spec2Model ----------------------------
(***************************************************************************)
(* Model of src/app/app.py: a FastAPI application that serves a fixed      *)
(* registry of MCP configurations (MCP_CONFIGS) through six GET handlers.  *)
(*                                                                         *)
(* Conventions.                                                            *)
(*  - A Python dict whose keys are data (MCP_CONFIGS, endpoints_info) is a *)
(*    sequence of items [key |-> k, value |-> v] in insertion order, with  *)
(*    unique keys.  A dict with fixed literal keys (a response body, an    *)
(*    inputSchema) is a record; a pydantic model is a record of its fields.*)
(*  - A Python list is a sequence.                                         *)
(*  - Strings are written in their ASCII JSON-escaped form: a non-ASCII    *)
(*    character is the six characters \uXXXX (json.dumps(s)[1:-1]).        *)
(*  - Every handler is an "async def" without an await expression, so the  *)
(*    event loop runs it to completion: one handler call is one atomic     *)
(*    step, and concurrently handled requests are an arbitrary sequence of *)
(*    handler steps.                                                       *)
(*  - The outcome of a handler call is either                              *)
(*      [kind |-> "return", value |-> v]                   (return v)      *)
(*      [kind |-> "HTTPException", status_code, detail]    (raise ...)     *)
(***************************************************************************)
EXTENDS Naturals, Sequences, FiniteSets, TLC

(***************************************************************************)
(* The seeded registry, src/app/app.py:71-306.                             *)
(***************************************************************************)

\* src/app/app.py:79-98  Tool(name="get_weather", ...)
Tool_get_weather ==
    [name |-> "get_weather",
     description |-> "\\u83b7\\u53d6\\u6307\\u5b9a\\u57ce\\u5e02\\u7684\\u5929\\u6c14\\u4fe1\\u606f",
     inputSchema |->
       [type |-> "object",
        properties |->
          [
            city |-> [type |-> "string", description |-> "\\u8981\\u67e5\\u8be2\\u5929\\u6c14\\u7684\\u57ce\\u5e02\\u540d\\u79f0"],
            unit |-> [type |-> "string", enum |-> <<"celsius", "fahrenheit">>, description |-> "\\u6e29\\u5ea6\\u5355\\u4f4d", default |-> "celsius"]
          ],
        required |-> <<"city">>]]

\* get_forecast pasted from get_weather with the name left as it was
Tool_get_forecast_named_get_weather ==
    [name |-> "get_weather",
     description |-> "\\u83b7\\u53d6\\u6307\\u5b9a\\u57ce\\u5e02\\u7684\\u5929\\u6c14\\u9884\\u62a5",
     inputSchema |->
       [type |-> "object",
        properties |->
          [
            city |-> [type |-> "string", description |-> "\\u8981\\u67e5\\u8be2\\u5929\\u6c14\\u9884\\u62a5\\u7684\\u57ce\\u5e02\\u540d\\u79f0"],
            days |-> [type |-> "integer", description |-> "\\u9884\\u62a5\\u5929\\u6570\\uff081-7\\u5929\\uff09", minimum |-> 1, maximum |-> 7, default |-> 3]
          ],
        required |-> <<"city">>]]

\* src/app/app.py:99-119  Tool(name="get_forecast", ...)
Tool_get_forecast ==
    [name |-> "get_forecast",
     description |-> "\\u83b7\\u53d6\\u6307\\u5b9a\\u57ce\\u5e02\\u7684\\u5929\\u6c14\\u9884\\u62a5",
     inputSchema |->
       [type |-> "object",
        properties |->
          [
            city |-> [type |-> "string", description |-> "\\u8981\\u67e5\\u8be2\\u5929\\u6c14\\u9884\\u62a5\\u7684\\u57ce\\u5e02\\u540d\\u79f0"],
            days |-> [type |-> "integer", description |-> "\\u9884\\u62a5\\u5929\\u6570\\uff081-7\\u5929\\uff09", minimum |-> 1, maximum |-> 7, default |-> 3]
          ],
        required |-> <<"city">>]]

\* src/app/app.py:72-121  MCPConfig(server=ServerInfo(...), tools=[...])
Config_weather ==
    [server |->
       [name |-> "Weather MCP Server",
        version |-> "1.0.0",
        description |-> "\\u63d0\\u4f9b\\u5929\\u6c14\\u67e5\\u8be2\\u76f8\\u5173\\u7684\\u5de5\\u5177"],
     tools |-> <<Tool_get_weather, Tool_get_forecast>>]

\* src/app/app.py:129-147  Tool(name="query_database", ...)
Tool_query_database ==
    [name |-> "query_database",
     description |-> "\\u6267\\u884cSQL\\u67e5\\u8be2",
     inputSchema |->
       [type |-> "object",
        properties |->
          [
            sql |-> [type |-> "string", description |-> "\\u8981\\u6267\\u884c\\u7684SQL\\u67e5\\u8be2\\u8bed\\u53e5"],
            database |-> [type |-> "string", description |-> "\\u6570\\u636e\\u5e93\\u540d\\u79f0", default |-> "default"]
          ],
        required |-> <<"sql">>]]

\* src/app/app.py:148-166  Tool(name="execute_command", ...)
Tool_execute_command ==
    [name |-> "execute_command",
     description |-> "\\u6267\\u884c\\u6570\\u636e\\u5e93\\u547d\\u4ee4\\uff08INSERT, UPDATE, DELETE\\uff09",
     inputSchema |->
       [type |-> "object",
        properties |->
          [
            command |-> [type |-> "string", description |-> "\\u8981\\u6267\\u884c\\u7684SQL\\u547d\\u4ee4"],
            database |-> [type |-> "string", description |-> "\\u6570\\u636e\\u5e93\\u540d\\u79f0", default |-> "default"]
          ],
        required |-> <<"command">>]]

\* src/app/app.py:167-181  Tool(name="list_tables", ...)
Tool_list_tables ==
    [name |-> "list_tables",
     description |-> "\\u5217\\u51fa\\u6570\\u636e\\u5e93\\u4e2d\\u7684\\u6240\\u6709\\u8868",
     inputSchema |->
       [type |-> "object",
        properties |->
          [
            database |-> [type |-> "string", description |-> "\\u6570\\u636e\\u5e93\\u540d\\u79f0", default |-> "default"]
          ],
        required |-> <<>>]]

\* src/app/app.py:122-183  MCPConfig(server=ServerInfo(...), tools=[...])
Config_database ==
    [server |->
       [name |-> "Database MCP Server",
        version |-> "1.0.0",
        description |-> "\\u63d0\\u4f9b\\u6570\\u636e\\u5e93\\u64cd\\u4f5c\\u76f8\\u5173\\u7684\\u5de5\\u5177"],
     tools |-> <<Tool_query_database, Tool_execute_command, Tool_list_tables>>]

\* src/app/app.py:191-209  Tool(name="read_file", ...)
Tool_read_file ==
    [name |-> "read_file",
     description |-> "\\u8bfb\\u53d6\\u6587\\u4ef6\\u5185\\u5bb9",
     inputSchema |->
       [type |-> "object",
        properties |->
          [
            path |-> [type |-> "string", description |-> "\\u8981\\u8bfb\\u53d6\\u7684\\u6587\\u4ef6\\u8def\\u5f84"],
            encoding |-> [type |-> "string", description |-> "\\u6587\\u4ef6\\u7f16\\u7801", default |-> "utf-8"]
          ],
        required |-> <<"path">>]]

\* write_file declared with "required": ["path"]: the second field forgotten
Tool_write_file_requires_path_only ==
    [name |-> "write_file",
     description |-> "\\u5199\\u5165\\u6587\\u4ef6\\u5185\\u5bb9",
     inputSchema |->
       [type |-> "object",
        properties |->
          [
            path |-> [type |-> "string", description |-> "\\u8981\\u5199\\u5165\\u7684\\u6587\\u4ef6\\u8def\\u5f84"],
            content |-> [type |-> "string", description |-> "\\u8981\\u5199\\u5165\\u7684\\u6587\\u4ef6\\u5185\\u5bb9"],
            encoding |-> [type |-> "string", description |-> "\\u6587\\u4ef6\\u7f16\\u7801", default |-> "utf-8"]
          ],
        required |-> <<"path">>]]

\* src/app/app.py:210-232  Tool(name="write_file", ...)
Tool_write_file ==
    [name |-> "write_file",
     description |-> "\\u5199\\u5165\\u6587\\u4ef6\\u5185\\u5bb9",
     inputSchema |->
       [type |-> "object",
        properties |->
          [
            path |-> [type |-> "string", description |-> "\\u8981\\u5199\\u5165\\u7684\\u6587\\u4ef6\\u8def\\u5f84"],
            content |-> [type |-> "string", description |-> "\\u8981\\u5199\\u5165\\u7684\\u6587\\u4ef6\\u5185\\u5bb9"],
            encoding |-> [type |-> "string", description |-> "\\u6587\\u4ef6\\u7f16\\u7801", default |-> "utf-8"]
          ],
        required |-> <<"path", "content">>]]

\* src/app/app.py:233-252  Tool(name="list_directory", ...)
Tool_list_directory ==
    [name |-> "list_directory",
     description |-> "\\u5217\\u51fa\\u76ee\\u5f55\\u5185\\u5bb9",
     inputSchema |->
       [type |-> "object",
        properties |->
          [
            path |-> [type |-> "string", description |-> "\\u8981\\u5217\\u51fa\\u7684\\u76ee\\u5f55\\u8def\\u5f84", default |-> "."],
            recursive |-> [type |-> "boolean", description |-> "\\u662f\\u5426\\u9012\\u5f52\\u5217\\u51fa\\u5b50\\u76ee\\u5f55", default |-> FALSE]
          ],
        required |-> <<>>]]

\* src/app/app.py:184-254  MCPConfig(server=ServerInfo(...), tools=[...])
Config_file ==
    [server |->
       [name |-> "File System MCP Server",
        version |-> "1.0.0",
        description |-> "\\u63d0\\u4f9b\\u6587\\u4ef6\\u7cfb\\u7edf\\u64cd\\u4f5c\\u76f8\\u5173\\u7684\\u5de5\\u5177"],
     tools |-> <<Tool_read_file, Tool_write_file, Tool_list_directory>>]

\* src/app/app.py:262-280  Tool(name="http_get", ...)
Tool_http_get ==
    [name |-> "http_get",
     description |-> "\\u53d1\\u9001HTTP GET\\u8bf7\\u6c42",
     inputSchema |->
       [type |-> "object",
        properties |->
          [
            url |-> [type |-> "string", description |-> "\\u8bf7\\u6c42\\u7684URL"],
            headers |-> [type |-> "object", description |-> "HTTP\\u8bf7\\u6c42\\u5934", additionalProperties |-> [type |-> "string"]]
          ],
        required |-> <<"url">>]]

\* src/app/app.py:281-303  Tool(name="http_post", ...)
Tool_http_post ==
    [name |-> "http_post",
     description |-> "\\u53d1\\u9001HTTP POST\\u8bf7\\u6c42",
     inputSchema |->
       [type |-> "object",
        properties |->
          [
            url |-> [type |-> "string", description |-> "\\u8bf7\\u6c42\\u7684URL"],
            body |-> [type |-> "object", description |-> "\\u8bf7\\u6c42\\u4f53\\uff08JSON\\u683c\\u5f0f\\uff09"],
            headers |-> [type |-> "object", description |-> "HTTP\\u8bf7\\u6c42\\u5934", additionalProperties |-> [type |-> "string"]]
          ],
        required |-> <<"url", "body">>]]

\* src/app/app.py:255-305  MCPConfig(server=ServerInfo(...), tools=[...])
Config_api ==
    [server |->
       [name |-> "API Client MCP Server",
        version |-> "1.0.0",
        description |-> "\\u63d0\\u4f9bHTTP API\\u8c03\\u7528\\u76f8\\u5173\\u7684\\u5de5\\u5177"],
     tools |-> <<Tool_http_get, Tool_http_post>>]

\* src/app/app.py:71-306  the MCP_CONFIGS dict literal, items in insertion order
SeedConfigs ==
    << [key |-> "weather", value |-> Config_weather],
       [key |-> "database", value |-> Config_database],
       [key |-> "file", value |-> Config_file],
       [key |-> "api", value |-> Config_api] >>

(***************************************************************************)
(* Python built-ins the handlers use.                                      *)
(***************************************************************************)

\* MCP_CONFIGS.keys(): the keys in insertion order
keys(d) == [i \in 1..Len(d) |-> d[i].key]

\* endpoint in MCP_CONFIGS
contains(d, k) == \E i \in 1..Len(d) : d[i].key = k

\* MCP_CONFIGS[endpoint], for a key the dict holds
getitem(d, k) == d[CHOOSE i \in 1..Len(d) : d[i].key = k].value

\* sep.join(strs)
RECURSIVE join(_, _)
join(sep, strs) ==
    IF Len(strs) = 0 THEN ""
    ELSE IF Len(strs) = 1 THEN strs[1]
    ELSE strs[1] \o sep \o join(sep, Tail(strs))

\* Python's None
None == [None |-> TRUE]

\* next((t for t in tools if t.name == tool_name), config.tools[0]):
\* a default that is a tool instead of None
next_match_default_first(tools, tool_name) ==
    IF \E i \in 1..Len(tools) : tools[i].name = tool_name
    THEN tools[CHOOSE i \in 1..Len(tools) :
                   /\ tools[i].name = tool_name
                   /\ \A j \in 1..(i - 1) : tools[j].name # tool_name]
    ELSE IF Len(tools) > 0 THEN tools[1] ELSE None

\* next((t for t in tools if t.name == tool_name), None):
\* the first tool, in list order, whose name equals tool_name, else None
next_match(tools, tool_name) ==
    IF \E i \in 1..Len(tools) : tools[i].name = tool_name
    THEN tools[CHOOSE i \in 1..Len(tools) :
                   /\ tools[i].name = tool_name
                   /\ \A j \in 1..(i - 1) : tools[j].name # tool_name]
    ELSE None

(***************************************************************************)
(* The requests the model sends.                                           *)
(***************************************************************************)

\* how many of UnknownEndpoints / UnknownToolNames the requests draw from
NumUnknownEndpoints == 2
NumUnknownToolNames == 3

\* path segments that are no key of the registry: an arbitrary name, a key
\* in another case, a proper prefix of a key, a key with a suffix
UnknownEndpoints == <<"unknown", "Weather", "weathe", "apis", "tools">>

\* tool names that no tool has: the name of the spec's example, a name in
\* another case, a common prefix of two names, a name with a suffix
UnknownToolNames ==
    <<"nonexistent_tool", "Get_weather", "get_", "list_tables2", "HTTP_GET">>

SeedToolNames ==
    UNION { { SeedConfigs[i].value.tools[j].name :
                j \in 1..Len(SeedConfigs[i].value.tools) } :
            i \in 1..Len(SeedConfigs) }

EndpointInputs ==
    { SeedConfigs[i].key : i \in 1..Len(SeedConfigs) }
      \cup { UnknownEndpoints[i] : i \in 1..NumUnknownEndpoints }

ToolNameInputs ==
    SeedToolNames \cup { UnknownToolNames[i] : i \in 1..NumUnknownToolNames }

\* the routes, named by their path templates
ROOT == "/"
CONFIG == "/mcp/{endpoint}"
SERVER == "/mcp/{endpoint}/server"
TOOLS == "/mcp/{endpoint}/tools"
TOOL == "/mcp/{endpoint}/tools/{tool_name}"
LIST == "/list-endpoints"

NoRequest == [route |-> "none"]
NoResponse == [kind |-> "none"]

(***************************************************************************)
(* State.                                                                  *)
(*   MCP_CONFIGS  the module-level registry dict                           *)
(*   request      the request handled last                                 *)
(*   response     the outcome of handling it                               *)
(*   earlier      one exchange [request, response] completed before the    *)
(*                last one and kept by the observer; any completed         *)
(*                exchange can be the one kept                              *)
(***************************************************************************)
VARIABLES MCP_CONFIGS, request, response, earlier

vars == <<MCP_CONFIGS, request, response, earlier>>

Init ==
    /\ MCP_CONFIGS = SeedConfigs
    /\ request = NoRequest
    /\ response = NoResponse
    /\ earlier = [request |-> NoRequest, response |-> NoResponse]

\* the observer records the exchange that completes now, and either keeps
\* the exchange it held or takes the one that was the last until now
Observe(req, resp) ==
    /\ request' = req
    /\ response' = resp
    /\ earlier' \in {earlier, [request |-> request, response |-> response]}

\* return value
Return(req, value) ==
    Observe(req, [kind |-> "return", value |-> value])

\* raise HTTPException(status_code=status_code, detail=detail)
Raise(req, status_code, detail) ==
    Observe(req, [kind |-> "HTTPException",
                  status_code |-> status_code, detail |-> detail])

\* f"MCP端点 '{endpoint}' 不存在。可用的端点: {available}"
endpoint_detail(endpoint, available) ==
    "MCP\\u7aef\\u70b9 '" \o endpoint
      \o "' \\u4e0d\\u5b58\\u5728\\u3002\\u53ef\\u7528\\u7684\\u7aef\\u70b9: "
      \o available

\* f"工具 '{tool_name}' 在端点 '{endpoint}' 中不存在。可用的工具: {available_tools}"
tool_detail(tool_name, endpoint, available_tools) ==
    "\\u5de5\\u5177 '" \o tool_name \o "' \\u5728\\u7aef\\u70b9 '" \o endpoint
      \o "' \\u4e2d\\u4e0d\\u5b58\\u5728\\u3002\\u53ef\\u7528\\u7684\\u5de5\\u5177: "
      \o available_tools

(***************************************************************************)
(* The handlers.                                                           *)
(***************************************************************************)

\* root with tools_count taken from the registry instead of the config:
\* len(MCP_CONFIGS) for len(config.tools)
root_counts_configs ==
    /\ Return([route |-> ROOT],
              [message |-> "Dynamic MCP Demo Server",
               available_endpoints |-> keys(MCP_CONFIGS),
               endpoints_info |->
                 [i \in 1..Len(MCP_CONFIGS) |->
                    [key |-> MCP_CONFIGS[i].key,
                     value |-> [server_name |-> MCP_CONFIGS[i].value.server.name,
                                tools_count |-> Len(MCP_CONFIGS)]]]])
    /\ UNCHANGED MCP_CONFIGS

\* GET /
root ==
    /\ Return([route |-> ROOT],
              [message |-> "Dynamic MCP Demo Server",
               available_endpoints |-> keys(MCP_CONFIGS),
               endpoints_info |->
                 [i \in 1..Len(MCP_CONFIGS) |->
                    [key |-> MCP_CONFIGS[i].key,
                     value |-> [server_name |-> MCP_CONFIGS[i].value.server.name,
                                tools_count |-> Len(MCP_CONFIGS[i].value.tools)]]]])
    /\ UNCHANGED MCP_CONFIGS

\* get_mcp_config with MCP_CONFIGS.pop(endpoint) for MCP_CONFIGS[endpoint]
get_mcp_config_pops(endpoint) ==
    LET req == [route |-> CONFIG, endpoint |-> endpoint] IN
    IF ~contains(MCP_CONFIGS, endpoint)
    THEN /\ Raise(req, 404,
                  endpoint_detail(endpoint, join(", ", keys(MCP_CONFIGS))))
         /\ UNCHANGED MCP_CONFIGS
    ELSE /\ Return(req, getitem(MCP_CONFIGS, endpoint))
         /\ MCP_CONFIGS' = SelectSeq(MCP_CONFIGS, LAMBDA it : it.key # endpoint)

\* GET /mcp/{endpoint}
get_mcp_config(endpoint) ==
    LET req == [route |-> CONFIG, endpoint |-> endpoint] IN
    /\ IF ~contains(MCP_CONFIGS, endpoint)
       THEN Raise(req, 404,
                  endpoint_detail(endpoint, join(", ", keys(MCP_CONFIGS))))
       ELSE Return(req, getitem(MCP_CONFIGS, endpoint))
    /\ UNCHANGED MCP_CONFIGS

\* get_mcp_server_info that answers with the first configuration's server:
\* an index for the key
get_mcp_server_info_first(endpoint) ==
    LET req == [route |-> SERVER, endpoint |-> endpoint] IN
    /\ IF ~contains(MCP_CONFIGS, endpoint)
       THEN Raise(req, 404,
                  endpoint_detail(endpoint, join(", ", keys(MCP_CONFIGS))))
       ELSE Return(req, MCP_CONFIGS[1].value.server)
    /\ UNCHANGED MCP_CONFIGS

\* GET /mcp/{endpoint}/server
get_mcp_server_info(endpoint) ==
    LET req == [route |-> SERVER, endpoint |-> endpoint] IN
    /\ IF ~contains(MCP_CONFIGS, endpoint)
       THEN Raise(req, 404,
                  endpoint_detail(endpoint, join(", ", keys(MCP_CONFIGS))))
       ELSE Return(req, getitem(MCP_CONFIGS, endpoint).server)
    /\ UNCHANGED MCP_CONFIGS

\* get_mcp_tools that answers an unknown endpoint with an empty list:
\* MCP_CONFIGS.get(endpoint) with a default for the membership test
get_mcp_tools_default_empty(endpoint) ==
    LET req == [route |-> TOOLS, endpoint |-> endpoint] IN
    /\ IF ~contains(MCP_CONFIGS, endpoint)
       THEN Return(req, <<>>)
       ELSE Return(req, getitem(MCP_CONFIGS, endpoint).tools)
    /\ UNCHANGED MCP_CONFIGS

\* get_mcp_tools that reverses the stored list in place before returning it:
\* config.tools.reverse()
get_mcp_tools_reverses(endpoint) ==
    LET req == [route |-> TOOLS, endpoint |-> endpoint]
        reversed(ts) == [j \in 1..Len(ts) |-> ts[Len(ts) + 1 - j]]
    IN
    IF ~contains(MCP_CONFIGS, endpoint)
    THEN /\ Raise(req, 404,
                  endpoint_detail(endpoint, join(", ", keys(MCP_CONFIGS))))
         /\ UNCHANGED MCP_CONFIGS
    ELSE /\ Return(req, reversed(getitem(MCP_CONFIGS, endpoint).tools))
         /\ MCP_CONFIGS' =
              [i \in 1..Len(MCP_CONFIGS) |->
                 IF MCP_CONFIGS[i].key = endpoint
                 THEN [MCP_CONFIGS[i] EXCEPT
                         !.value.tools = reversed(MCP_CONFIGS[i].value.tools)]
                 ELSE MCP_CONFIGS[i]]

\* GET /mcp/{endpoint}/tools
get_mcp_tools(endpoint) ==
    LET req == [route |-> TOOLS, endpoint |-> endpoint] IN
    /\ IF ~contains(MCP_CONFIGS, endpoint)
       THEN Raise(req, 404,
                  endpoint_detail(endpoint, join(", ", keys(MCP_CONFIGS))))
       ELSE Return(req, getitem(MCP_CONFIGS, endpoint).tools)
    /\ UNCHANGED MCP_CONFIGS

\* get_tool_description whose second message lists the registry's keys:
\* the first branch's "available" pasted into the second
get_tool_description_lists_keys(endpoint, tool_name) ==
    LET req == [route |-> TOOL, endpoint |-> endpoint, tool_name |-> tool_name] IN
    /\ IF ~contains(MCP_CONFIGS, endpoint)
       THEN Raise(req, 404,
                  endpoint_detail(endpoint, join(", ", keys(MCP_CONFIGS))))
       ELSE LET config == getitem(MCP_CONFIGS, endpoint)
                tool == next_match(config.tools, tool_name)
            IN  IF tool = None
                THEN Raise(req, 404,
                           tool_detail(tool_name, endpoint,
                                       join(", ", keys(MCP_CONFIGS))))
                ELSE Return(req, tool)
    /\ UNCHANGED MCP_CONFIGS

\* GET /mcp/{endpoint}/tools/{tool_name}
get_tool_description(endpoint, tool_name) ==
    LET req == [route |-> TOOL, endpoint |-> endpoint, tool_name |-> tool_name] IN
    /\ IF ~contains(MCP_CONFIGS, endpoint)
       THEN Raise(req, 404,
                  endpoint_detail(endpoint, join(", ", keys(MCP_CONFIGS))))
       ELSE LET config == getitem(MCP_CONFIGS, endpoint)
                tool == next_match(config.tools, tool_name)
                \* ", ".join(t.name for t in config.tools)
                available_tools ==
                    join(", ", [j \in 1..Len(config.tools) |-> config.tools[j].name])
            IN  \* "if not tool": a pydantic model is truthy, None is not
                IF tool = None
                THEN Raise(req, 404,
                           tool_detail(tool_name, endpoint, available_tools))
                ELSE Return(req, tool)
    /\ UNCHANGED MCP_CONFIGS

\* list_all_endpoints that skips each configuration's first tool:
\* config.tools[1:] for config.tools
list_all_endpoints_skips_first ==
    /\ Return([route |-> LIST],
              [endpoints |->
                 [i \in 1..Len(MCP_CONFIGS) |->
                    LET endpoint == MCP_CONFIGS[i].key
                        config == MCP_CONFIGS[i].value
                    IN  [endpoint |-> endpoint,
                         server_name |-> config.server.name,
                         server_version |-> config.server.version,
                         server_description |-> config.server.description,
                         tools |->
                           [j \in 1..(Len(config.tools) - 1) |->
                              [name |-> config.tools[j + 1].name,
                               description |-> config.tools[j + 1].description]]]]])
    /\ UNCHANGED MCP_CONFIGS

\* GET /list-endpoints
list_all_endpoints ==
    /\ Return([route |-> LIST],
              [endpoints |->
                 [i \in 1..Len(MCP_CONFIGS) |->
                    LET endpoint == MCP_CONFIGS[i].key
                        config == MCP_CONFIGS[i].value
                    IN  [endpoint |-> endpoint,
                         server_name |-> config.server.name,
                         server_version |-> config.server.version,
                         server_description |-> config.server.description,
                         tools |->
                           [j \in 1..Len(config.tools) |->
                              [name |-> config.tools[j].name,
                               description |-> config.tools[j].description]]]]])
    /\ UNCHANGED MCP_CONFIGS

\* a client sends any request; the router calls the handler of its route
Next ==
    \/ root
    \/ \E endpoint \in EndpointInputs : get_mcp_config(endpoint)
    \/ \E endpoint \in EndpointInputs : get_mcp_server_info(endpoint)
    \/ \E endpoint \in EndpointInputs : get_mcp_tools(endpoint)
    \/ \E endpoint \in EndpointInputs, tool_name \in ToolNameInputs :
          get_tool_description(endpoint, tool_name)
    \/ list_all_endpoints

Spec == Init /\ [][Next]_vars

(***************************************************************************)
(* What the properties observe.                                            *)
(***************************************************************************)

\* the exchange completed last
now == [request |-> request, response |-> response]

Returned(resp) == resp.kind = "return"

NotFound(resp) == resp.kind = "HTTPException" /\ resp.status_code = 404

Lookup(x) == x.request.route \in {CONFIG, SERVER, TOOLS, TOOL}

\* k is a key of the registry as it is now
Registered(k) == \E i \in 1..Len(MCP_CONFIGS) : MCP_CONFIGS[i].key = k

\* the Configuration the registry holds for a registered key
ConfigurationOf(k) ==
    MCP_CONFIGS[CHOOSE i \in 1..Len(MCP_CONFIGS) : MCP_CONFIGS[i].key = k].value

Min(S) == CHOOSE x \in S : \A y \in S : x <= y

\* the values the specification names
RegisteredKeys == <<"weather", "database", "file", "api">>

RegisteredKeySet == {"weather", "database", "file", "api"}

SeededServerName ==
    [weather |-> "Weather MCP Server",
     database |-> "Database MCP Server",
     file |-> "File System MCP Server",
     api |-> "API Client MCP Server"]

SeededConfiguration ==
    [weather |-> Config_weather,
     database |-> Config_database,
     file |-> Config_file,
     api |-> Config_api]

SeededToolNames ==
    [weather |-> "get_weather, get_forecast",
     database |-> "query_database, execute_command, list_tables",
     file |-> "read_file, write_file, list_directory",
     api |-> "http_get, http_post"]

(***************************************************************************)
(* C1.  A lookup (get configuration, get server info, get tools, get       *)
(* single tool) of a key that is not in the registry is answered with      *)
(* HTTP 404, and the message names the requested key and lists the         *)
(* registered keys in registry order: "weather, database, file, api".      *)
(* For get single tool this holds whatever the tool name is.               *)
(***************************************************************************)
C1_UnknownKeyNotFound ==
    (Lookup(now) /\ ~Registered(request.endpoint)) =>
        /\ NotFound(response)
        /\ response.detail =
             "MCP\\u7aef\\u70b9 '" \o request.endpoint
               \o "' \\u4e0d\\u5b58\\u5728\\u3002\\u53ef\\u7528\\u7684\\u7aef\\u70b9: "
               \o "weather, database, file, api"

\* get single tool was asked for an unknown key with a tool name that a
\* registered key has, and answered 404
C1_Witness ==
    /\ request = [route |-> TOOL, endpoint |-> "unknown", tool_name |-> "get_weather"]
    /\ NotFound(response)

(***************************************************************************)
(* C2.  For every registered key k, get configuration returns the seeded   *)
(* Configuration of k (never NotFound), whose server.name is the seeded    *)
(* name; get server info and get tools of k return the server part and     *)
(* the tool sequence of the Configuration that get configuration returns.  *)
(***************************************************************************)
C2_PartsOf(c, o) ==
    ( /\ c.request.route = CONFIG
      /\ Returned(c.response)
      /\ o.request.route \in {SERVER, TOOLS}
      /\ o.request.endpoint = c.request.endpoint ) =>
        /\ Returned(o.response)
        /\ o.request.route = SERVER => o.response.value = c.response.value.server
        /\ o.request.route = TOOLS => o.response.value = c.response.value.tools

C2_RegisteredKeyLookups ==
    /\ (request.route = CONFIG /\ request.endpoint \in RegisteredKeySet) =>
          /\ Returned(response)
          /\ response.value = SeededConfiguration[request.endpoint]
          /\ response.value.server.name = SeededServerName[request.endpoint]
    /\ (request.route \in {SERVER, TOOLS} /\ request.endpoint \in RegisteredKeySet) =>
          Returned(response)
    /\ C2_PartsOf(earlier, now)
    /\ C2_PartsOf(now, earlier)

\* get configuration of "file" was answered, and then get server info of
\* "file"
C2_Witness ==
    /\ earlier.request = [route |-> CONFIG, endpoint |-> "file"]
    /\ Returned(earlier.response)
    /\ request = [route |-> SERVER, endpoint |-> "file"]
    /\ Returned(response)

(***************************************************************************)
(* C3.  For a registered key k and a tool name n that no tool of k has,    *)
(* get single tool is answered with HTTP 404, and the message lists the    *)
(* tool names of k in their stored order (not the registry's keys); for    *)
(* weather and nonexistent_tool it lists "get_weather, get_forecast".      *)
(***************************************************************************)
C3_UnknownToolNotFound ==
    ( /\ request.route = TOOL
      /\ request.endpoint \in RegisteredKeySet
      /\ \A j \in 1..Len(ConfigurationOf(request.endpoint).tools) :
            ConfigurationOf(request.endpoint).tools[j].name # request.tool_name ) =>
        /\ NotFound(response)
        /\ response.detail =
             "\\u5de5\\u5177 '" \o request.tool_name
               \o "' \\u5728\\u7aef\\u70b9 '" \o request.endpoint
               \o "' \\u4e2d\\u4e0d\\u5b58\\u5728\\u3002\\u53ef\\u7528\\u7684\\u5de5\\u5177: "
               \o SeededToolNames[request.endpoint]

\* /mcp/weather/tools/nonexistent_tool was answered 404
C3_Witness ==
    /\ request = [route |-> TOOL, endpoint |-> "weather",
                  tool_name |-> "nonexistent_tool"]
    /\ NotFound(response)

(***************************************************************************)
(* C4.  For a registered key k, get single tool returns the first tool of  *)
(* k's sequence whose name equals n exactly, and answers NotFound exactly  *)
(* when no tool of k has the name n; so for every tool t that get tools    *)
(* lists for k, get single tool of t.name returns a tool named t.name.     *)
(***************************************************************************)
C4_ListedToolFound(l, o) ==
    ( /\ l.request.route = TOOLS
      /\ Returned(l.response)
      /\ o.request.route = TOOL
      /\ o.request.endpoint = l.request.endpoint ) =>
        \A j \in 1..Len(l.response.value) :
            l.response.value[j].name = o.request.tool_name =>
                /\ Returned(o.response)
                /\ o.response.value.name = l.response.value[j].name
                /\ o.response.value = l.response.value[j]

C4_ExactFirstMatch ==
    /\ (request.route = TOOL /\ request.endpoint \in RegisteredKeySet) =>
          LET tools == ConfigurationOf(request.endpoint).tools
              matches == { j \in 1..Len(tools) : tools[j].name = request.tool_name }
          IN  /\ matches = {} => NotFound(response)
              /\ matches # {} =>
                    /\ Returned(response)
                    /\ response.value = tools[Min(matches)]
                    /\ response.value.name = request.tool_name
    /\ C4_ListedToolFound(earlier, now)
    /\ C4_ListedToolFound(now, earlier)

\* get tools of "database" was answered, and then get single tool of its
\* third tool
C4_Witness ==
    /\ earlier.request = [route |-> TOOLS, endpoint |-> "database"]
    /\ Returned(earlier.response)
    /\ request = [route |-> TOOL, endpoint |-> "database",
                  tool_name |-> "list_tables"]
    /\ Returned(response)

(***************************************************************************)
(* C5.  The root listing agrees with the lookups: available_endpoints is   *)
(* the registered keys, endpoints_info has one entry per registered key,   *)
(* and the entry of k has the tools_count that is the number of tools get  *)
(* tools returns for k and the server_name that get server info returns.   *)
(***************************************************************************)
C5_RootAgrees(r, o) ==
    (r.request.route = ROOT /\ Returned(r.response)) =>
        LET body == r.response.value
            info == body.endpoints_info
        IN  /\ Len(body.available_endpoints) = Len(MCP_CONFIGS)
            /\ { body.available_endpoints[i] : i \in 1..Len(body.available_endpoints) }
                 = { MCP_CONFIGS[i].key : i \in 1..Len(MCP_CONFIGS) }
            /\ Len(info) = Len(MCP_CONFIGS)
            /\ \A k \in { MCP_CONFIGS[i].key : i \in 1..Len(MCP_CONFIGS) } :
                  Cardinality({ i \in 1..Len(info) : info[i].key = k }) = 1
            /\ (o.request.route = TOOLS /\ Returned(o.response)) =>
                  \A i \in 1..Len(info) :
                      info[i].key = o.request.endpoint =>
                          info[i].value.tools_count = Len(o.response.value)
            /\ (o.request.route = SERVER /\ Returned(o.response)) =>
                  \A i \in 1..Len(info) :
                      info[i].key = o.request.endpoint =>
                          info[i].value.server_name = o.response.value.name

C5_RootConsistent ==
    /\ C5_RootAgrees(now, earlier)
    /\ C5_RootAgrees(earlier, now)

\* the root listing was answered, and then get tools of "database"
C5_Witness ==
    /\ earlier.request.route = ROOT
    /\ Returned(earlier.response)
    /\ request = [route |-> TOOLS, endpoint |-> "database"]
    /\ Returned(response)

(***************************************************************************)
(* C6.  The endpoints summary has one entry per registered key, in         *)
(* registry order; the entry of k carries the server name, version and     *)
(* description of k and one name+description pair per tool that get tools  *)
(* returns for k, in the same order.                                       *)
(***************************************************************************)
C6_SummaryAgrees(s, o) ==
    (s.request.route = LIST /\ Returned(s.response)) =>
        LET eps == s.response.value.endpoints IN
        /\ Len(eps) = Len(RegisteredKeys)
        /\ \A i \in 1..Len(eps) :
              /\ eps[i].endpoint = RegisteredKeys[i]
              /\ eps[i].endpoint = MCP_CONFIGS[i].key
              /\ eps[i].server_name = SeededServerName[eps[i].endpoint]
              /\ eps[i].server_name = MCP_CONFIGS[i].value.server.name
              /\ eps[i].server_version = MCP_CONFIGS[i].value.server.version
              /\ eps[i].server_description = MCP_CONFIGS[i].value.server.description
        /\ (o.request.route = SERVER /\ Returned(o.response)) =>
              \A i \in 1..Len(eps) :
                  eps[i].endpoint = o.request.endpoint =>
                      /\ eps[i].server_name = o.response.value.name
                      /\ eps[i].server_version = o.response.value.version
                      /\ eps[i].server_description = o.response.value.description
        /\ (o.request.route = TOOLS /\ Returned(o.response)) =>
              \A i \in 1..Len(eps) :
                  eps[i].endpoint = o.request.endpoint =>
                      /\ Len(eps[i].tools) = Len(o.response.value)
                      /\ \A j \in 1..Len(eps[i].tools) :
                            eps[i].tools[j] =
                              [name |-> o.response.value[j].name,
                               description |-> o.response.value[j].description]

C6_SummaryComplete ==
    /\ C6_SummaryAgrees(now, earlier)
    /\ C6_SummaryAgrees(earlier, now)

\* the endpoints summary was answered, and then get tools of "file"
C6_Witness ==
    /\ earlier.request.route = LIST
    /\ Returned(earlier.response)
    /\ request = [route |-> TOOLS, endpoint |-> "file"]
    /\ Returned(response)

(***************************************************************************)
(* C7.  The response is a function of the request alone: a request that    *)
(* is repeated, after any requests in between, gets the response it got    *)
(* before; and no request waits: in every state every handler can take     *)
(* every request.                                                          *)
(***************************************************************************)
C7_NeverBlocked ==
    /\ ENABLED root
    /\ ENABLED list_all_endpoints
    /\ \A endpoint \in EndpointInputs :
          /\ ENABLED get_mcp_config(endpoint)
          /\ ENABLED get_mcp_server_info(endpoint)
          /\ ENABLED get_mcp_tools(endpoint)
          /\ \A tool_name \in ToolNameInputs :
                ENABLED get_tool_description(endpoint, tool_name)

C7_Idempotent ==
    /\ earlier.request = request => earlier.response = response
    /\ C7_NeverBlocked

\* a get configuration that was answered before was answered again
C7_Witness ==
    /\ earlier.request = request
    /\ request = [route |-> CONFIG, endpoint |-> "api"]
    /\ Returned(response)

(***************************************************************************)
(* C8.  get single tool returns the seeded input-schema: for database and  *)
(* list_tables the required list is empty, for file and write_file it is   *)
(* ["path", "content"], in that order.                                     *)
(***************************************************************************)
C8_SeededSchema ==
    /\ request = [route |-> TOOL, endpoint |-> "database",
                  tool_name |-> "list_tables"] =>
          /\ Returned(response)
          /\ response.value.inputSchema.required = <<>>
    /\ request = [route |-> TOOL, endpoint |-> "file",
                  tool_name |-> "write_file"] =>
          /\ Returned(response)
          /\ response.value.inputSchema.required = <<"path", "content">>

\* get single tool of file and write_file was answered
C8_Witness ==
    /\ request = [route |-> TOOL, endpoint |-> "file", tool_name |-> "write_file"]
    /\ Returned(response)
    /\ Len(response.value.inputSchema.required) = 2

(***************************************************************************)
(* C9.  No operation changes the registry: after any sequence of           *)
(* requests, answered with a value or with NotFound, the keys and every    *)
(* Configuration are the seeded ones.                                      *)
(***************************************************************************)
C9_RegistryUnchanged ==
    /\ MCP_CONFIGS = SeedConfigs
    /\ keys(MCP_CONFIGS) = RegisteredKeys

\* a request was answered with a value and a later one with NotFound
C9_Witness ==
    /\ earlier.request.route = TOOLS
    /\ Returned(earlier.response)
    /\ request.route = TOOL
    /\ NotFound(response)

(***************************************************************************)
(* C10.  In every reachable state no two tools of a registered key have    *)
(* the same name, so for each key and each name at most one tool matches.  *)
(***************************************************************************)
C10_UniqueToolNames ==
    \A i \in 1..Len(MCP_CONFIGS) :
        LET tools == MCP_CONFIGS[i].value.tools IN
        /\ \A a, b \in 1..Len(tools) : a # b => tools[a].name # tools[b].name
        /\ \A n \in ToolNameInputs :
              Cardinality({ a \in 1..Len(tools) : tools[a].name = n }) <= 1

\* get single tool found a tool of weather by its name
C10_Witness ==
    /\ request = [route |-> TOOL, endpoint |-> "weather",
                  tool_name |-> "get_forecast"]
    /\ Returned(response)
    /\ response.value.name = "get_forecast"
=============================================================================
